---- MODULE Spec2Model ----
(***************************************************************************)
(* Onboarding / subscription state reconciliation of relevant-app.         *)
(*                                                                         *)
(* The state machines share the store (user_preferences, subscriptions,    *)
(* user_trials):                                                           *)
(*   SpecNav  the client: the hooks of a mounted protected page settle,    *)
(*            then the page's navigation effects run (useNavigation,       *)
(*            OnboardingPage);                                             *)
(*   Spec     the server: signup trigger and auth callback, split at its   *)
(*            awaits;                                                      *)
(*   SpecPlan the pricing page of a signed-in user (OnboardingPricing);    *)
(*   SpecDone the payment-success page (OnboardingSuccessPage);            *)
(*   SpecFirst the creators of a preferences row: signup trigger, auth     *)
(*            callback, onboarding-status endpoint;                        *)
(*   SpecRace the plan upsert of the pricing page against the upsert of    *)
(*            the payment-success page;                                    *)
(*   SpecBoot the auth callback against the other writers of the row;      *)
(*   SpecHook the functions useOnboarding hands to its page, with its      *)
(*            cache;                                                       *)
(*   SpecLive the guards of the protected pages under weak fairness, with  *)
(*            one return from payment as the change of their inputs;       *)
(*   SpecJourney one user in one tab, from signup to the return from       *)
(*            payment.                                                     *)
(***************************************************************************)
EXTENDS Integers, FiniteSets, Sequences, TLC

VARIABLES
    now,        \* wall clock (NOW(), new Date())
    accounts,   \* auth.users / public.users: ids of the existing accounts
    prefs,      \* table user_preferences: a set of rows
    subs,       \* table subscriptions: user id -> status
    trials,     \* table user_trials: user id -> trial row or NoTrial
    session,    \* the browser session's user (NoUser: signed out)
    route,      \* the mounted page of the browser tab
    onbPage,    \* which OnboardingPage source is mounted at /onboarding
    auth,       \* AuthContext value
    onb,        \* useOnboarding state of the mounted page
    hook,       \* useOnboarding of the mounted page: its onboardingCache, its last call
    sub,        \* useSubscription state of the mounted page
    trial,      \* useTrialStatus state of the mounted page
    gate,       \* the last evaluation of a navigation effect, with its inputs
    cb,         \* the auth callback request in flight
    billing,    \* the payment provider's record: user id -> status
    sel,        \* OnboardingPricing of the browser tab: its state and its calls in flight
    suc,        \* the payment-success page request in flight
    api         \* the onboarding-status endpoint request in flight

storeVars == <<now, accounts, prefs, subs, trials>>
navVars == <<session, route, onbPage, auth, onb, hook, sub, trial, gate>>
flowVars == <<billing, sel, suc, api>>
srvVars == <<cb, billing, sel, suc, api>>
vars == <<now, accounts, prefs, subs, trials, session, route, onbPage, auth, onb,
          hook, sub, trial, gate, cb, billing, sel, suc, api>>

----------------------------------------------------------------------------
(* Bounds of the model *)

\* the clock stops at MaxTime
MaxTime == 2
\* length of the signup trial (INTERVAL '48 hours') in clock ticks
TrialTicks == 1
\* clicks on plan controls that one mounted pricing page takes
MaxClicks == 3
\* CACHE_DURATION (30 seconds) in clock ticks
CacheTicks == 1

----------------------------------------------------------------------------
(* Values *)

Users == {"u1", "u2"}
NoUser == "nouser"
Null == "null"
\* a NULL timestamp column; every real timestamp is >= 1
NullTime == 0

LOGIN == "/login"
LOGIN_ERROR == "/login?error=auth-failed"
DASHBOARD == "/dashboard"
ONBOARDING == "/onboarding"

SubStatus == {"absent", "active", "trialing", "canceled"}
NoTrial == [exists |-> FALSE, trial_end_time |-> NullTime, is_trial_used |-> FALSE]

----------------------------------------------------------------------------
(* The preference store *)

\* the row an INSERT of (user_id, has_completed_onboarding) produces at time t:
\* the other columns take their defaults
DefaultRow(u, completed, t) ==
    [user_id |-> u,
     has_completed_onboarding |-> completed,
     onboarding_step |-> 1,
     selected_plan_id |-> Null,
     onboarding_started_at |-> t,
     onboarding_completed_at |-> NullTime]

RowsOf(u) == {r \in prefs : r.user_id = u}
HasRow(u) == RowsOf(u) # {}
RowOf(u) == CHOOSE r \in RowsOf(u) : TRUE

\* INSERT: the key user_id rejects a second row for the same user
CanInsert(u) == ~HasRow(u)
Insert(row) == prefs \cup {row}

\* the signup trial's row
TrialRow(t) == [exists |-> TRUE, trial_end_time |-> t + TrialTicks, is_trial_used |-> FALSE]

\* upsert keyed by user_id: the provided columns replace those of the user's
\* row; without a row, one is inserted at time t with the column defaults
Upsert(fields, t) ==
    IF HasRow(fields.user_id)
    THEN (prefs \ RowsOf(fields.user_id)) \cup {fields @@ RowOf(fields.user_id)}
    ELSE prefs \cup {fields @@ DefaultRow(fields.user_id, FALSE, t)}

\* how an awaited upsert ends for its caller: applied, answered with an
\* error, or thrown
WriteOutcomes == {"ok", "error", "throws"}

----------------------------------------------------------------------------
(* Client: the hooks a protected page mounts *)

AuthInit == [isLoading |-> TRUE, user |-> NoUser, isSubscriber |-> FALSE]

\* AuthContext: a subscriber is a user whose subscription is active or trialing
IsSubscriberOf(u) == u # NoUser /\ subs[u] \in {"active", "trialing"}

NoData ==
    [exists |-> FALSE,
     user_id |-> NoUser,
     has_completed_onboarding |-> FALSE,
     onboarding_step |-> 1,
     selected_plan_id |-> Null,
     onboarding_started_at |-> NullTime,
     onboarding_completed_at |-> NullTime]

OnbInit == [isLoading |-> TRUE, ranFor |-> "unrun", data |-> NoData, selectedPlan |-> Null]

\* the row as useOnboarding keeps it
DataOf(row) ==
    [exists |-> TRUE,
     user_id |-> row.user_id,
     has_completed_onboarding |-> row.has_completed_onboarding,
     onboarding_step |-> row.onboarding_step,
     selected_plan_id |-> row.selected_plan_id,
     onboarding_started_at |-> row.onboarding_started_at,
     onboarding_completed_at |-> row.onboarding_completed_at]

\* useOnboarding.fetchOnboardingStatus for user u; queryFails: the select ends
\* with an error other than PGRST116
fetchOnboardingStatus(u, queryFails) ==
    IF u = NoUser
    THEN [onb EXCEPT !.isLoading = FALSE, !.ranFor = u, !.data = NoData]
    ELSE IF queryFails
    THEN [onb EXCEPT !.isLoading = FALSE, !.ranFor = u, !.data = NoData]
    ELSE LET result == IF HasRow(u)
                       THEN DataOf(RowOf(u))
                       ELSE [NoData EXCEPT !.exists = TRUE, !.user_id = u]
         IN [isLoading |-> FALSE, ranFor |-> u, data |-> result,
             selectedPlan |-> result.selected_plan_id]

\* an absent entry of onboardingCache
NoEntry == [valid |-> FALSE, data |-> NoData, timestamp |-> NullTime]

\* new Map()
CacheInit == [u \in Users |-> NoEntry]

\* useOnboarding of a page that has just mounted
HookInit == [cache |-> CacheInit, last |-> "none", wrote |-> FALSE]

\* fetchOnboardingStatus: cached && (now - cached.timestamp < CACHE_DURATION)
CacheHit(cache, u) ==
    u # NoUser /\ cache[u].valid /\ now - cache[u].timestamp < CacheTicks

\* fetchOnboardingStatus: onboardingCache.set(user.id, {data: result, timestamp: now})
CacheAfterFetch(cache, u, queryFails, result) ==
    IF u = NoUser \/ queryFails
    THEN cache
    ELSE [cache EXCEPT ![u] = [valid |-> TRUE, data |-> result, timestamp |-> now]]

\* useOnboarding's derived flag
hasCompletedOnboarding == onb.data.exists /\ onb.data.has_completed_onboarding

SubInit == [isLoading |-> TRUE, ranFor |-> "unrun", status |-> "absent"]

\* useSubscription for user u
fetchSubscription(u) ==
    [isLoading |-> FALSE, ranFor |-> u,
     status |-> IF u = NoUser THEN "absent" ELSE subs[u]]

TrialInit ==
    [isLoading |-> TRUE, ranFor |-> "unrun", isInTrial |-> FALSE, hasSubscription |-> FALSE]

\* useTrialStatus.checkTrialStatus for user u; subFails: the subscriptions
\* query returns no data; trialFails: the user_trials query ends with an
\* error other than PGRST116
checkTrialStatus(u, subFails, trialFails) ==
    IF u = NoUser
    THEN [trial EXCEPT !.isLoading = FALSE, !.ranFor = u]
    ELSE IF ~subFails /\ subs[u] \in {"active", "trialing"}
    THEN [isLoading |-> FALSE, ranFor |-> u, isInTrial |-> FALSE, hasSubscription |-> TRUE]
    ELSE IF trialFails
    THEN [isLoading |-> FALSE, ranFor |-> u, isInTrial |-> FALSE, hasSubscription |-> FALSE]
    ELSE IF trials[u].exists
    THEN [isLoading |-> FALSE, ranFor |-> u,
          isInTrial |-> ~trials[u].is_trial_used /\ now < trials[u].trial_end_time,
          hasSubscription |-> FALSE]
    ELSE [isLoading |-> FALSE, ranFor |-> u, isInTrial |-> TRUE, hasSubscription |-> FALSE]

Protected == {DASHBOARD, ONBOARDING}

\* AuthContext resolves the session
AuthLoad ==
    /\ route \in Protected
    /\ auth.isLoading
    /\ auth' = [isLoading |-> FALSE, user |-> session, isSubscriber |-> IsSubscriberOf(session)]
    /\ UNCHANGED <<storeVars, session, route, onbPage, onb, hook, sub, trial, gate, srvVars>>

\* the effect of useOnboarding: on mount and whenever user?.id changes; the
\* callback of that render closes over a new, empty onboardingCache
OnbFetch ==
    /\ route \in Protected
    /\ onb.ranFor # auth.user
    /\ \E queryFails \in BOOLEAN :
           /\ onb' = fetchOnboardingStatus(auth.user, queryFails)
           /\ hook' = [hook EXCEPT
                          !.cache = CacheAfterFetch(CacheInit, auth.user, queryFails, onb'.data)]
    /\ UNCHANGED <<storeVars, session, route, onbPage, auth, sub, trial, gate, srvVars>>

\* the effect of useSubscription
SubFetch ==
    /\ route \in Protected
    /\ sub.ranFor # auth.user
    /\ sub' = fetchSubscription(auth.user)
    /\ UNCHANGED <<storeVars, session, route, onbPage, auth, onb, hook, trial, gate, srvVars>>

\* the effect of useTrialStatus
TrialCheck ==
    /\ route \in Protected
    /\ trial.ranFor # auth.user
    /\ \E subFails \in BOOLEAN, trialFails \in BOOLEAN :
           trial' = checkTrialStatus(auth.user, subFails, trialFails)
    /\ UNCHANGED <<storeVars, session, route, onbPage, auth, onb, hook, sub, gate, srvVars>>

----------------------------------------------------------------------------
(* Client: the navigation effects *)

\* useNavigation.isLoading
NavIsLoading == auth.isLoading \/ onb.isLoading \/ sub.isLoading \/ trial.isLoading

\* getDestination without its subscription branch: every signed-in user is
\* sent to onboarding
getDestination_IgnoresSubscription(user, isSubscriber) ==
    IF user = NoUser THEN LOGIN ELSE ONBOARDING

\* getDestination without its authentication branch
getDestination_NoAuthCheck(user, isSubscriber) ==
    IF ~isSubscriber THEN ONBOARDING ELSE DASHBOARD

\* getDestination with the subscription test inverted
getDestination_Inverted(user, isSubscriber) ==
    IF user = NoUser
    THEN LOGIN
    ELSE IF isSubscriber
    THEN ONBOARDING
    ELSE DASHBOARD

\* useNavigation.getDestination
getDestination(user, isSubscriber) ==
    IF user = NoUser
    THEN LOGIN
    ELSE IF ~isSubscriber
    THEN ONBOARDING
    ELSE DASHBOARD

GateInit ==
    [ran |-> FALSE, by |-> "none", page |-> Null, settled |-> FALSE, user |-> NoUser,
     subscribed |-> FALSE, isInTrial |-> FALSE, completed |-> FALSE, hasPlan |-> FALSE,
     dest |-> Null, redirected |-> FALSE]

\* what a navigation effect saw and did: by is the evaluator, subscribed the
\* subscription signal that evaluator reads, dest its destination
Evaluation(by, page, subscribed, dest) ==
    [ran |-> TRUE, by |-> by, page |-> page, settled |-> ~NavIsLoading, user |-> auth.user,
     subscribed |-> subscribed, isInTrial |-> trial.isInTrial,
     completed |-> hasCompletedOnboarding, hasPlan |-> onb.selectedPlan # Null,
     dest |-> dest, redirected |-> dest # page]

\* router.replace(destination): the destination's page mounts, with its own hooks
Replace(destination) ==
    /\ route' = destination
    /\ onb' = OnbInit
    /\ hook' = HookInit
    /\ sub' = SubInit
    /\ trial' = TrialInit

\* redirectIfNeeded that never replaces the route
redirectIfNeeded_Stays(currentPath) == currentPath

\* where useNavigation.redirectIfNeeded(currentPath) leaves the tab
redirectIfNeeded(currentPath) ==
    IF NavIsLoading
    THEN currentPath
    ELSE getDestination(auth.user, auth.isSubscriber)

\* useNavigation.shouldShowPage(currentPath)
shouldShowPage(currentPath) ==
    IF NavIsLoading
    THEN ~(currentPath = DASHBOARD /\ auth.user # NoUser /\ ~auth.isSubscriber)
    ELSE getDestination(auth.user, auth.isSubscriber) = currentPath

\* the navigation effect of a page built on useNavigation (Dashboard, and the
\* OnboardingPage that calls redirectIfNeeded('/onboarding'))
NavigationEffect ==
    /\ route = DASHBOARD \/ (route = ONBOARDING /\ onbPage = "nav")
    /\ LET destination == redirectIfNeeded(route) IN
           /\ gate' = Evaluation("nav", route, auth.isSubscriber, destination)
           /\ IF destination # route
              THEN Replace(destination)
              ELSE UNCHANGED <<route, onb, hook, sub, trial>>
    /\ UNCHANGED <<storeVars, session, onbPage, auth, srvVars>>

\* OnboardingPage, first effect: redirect if user is not authenticated
OnboardingAuthEffect(currentPath) ==
    IF ~auth.isLoading /\ auth.user = NoUser
    THEN LOGIN
    ELSE currentPath

\* OnboardingPage, second effect: completed onboarding or valid subscription/trial
OnboardingAccessEffect(currentPath) ==
    IF auth.user # NoUser /\ ~onb.isLoading /\ ~sub.isLoading /\ ~trial.isLoading
    THEN LET hasValidAccess == trial.hasSubscription \/ trial.isInTrial
             hasCompletedOnboardingFlow == hasCompletedOnboarding /\ onb.selectedPlan # Null
         IN IF hasValidAccess \/ hasCompletedOnboardingFlow
            THEN DASHBOARD
            ELSE currentPath
    ELSE currentPath

\* the two effects of the OnboardingPage that does its own checks, run in
\* source order after a render
OnboardingPageEffects ==
    /\ route = ONBOARDING /\ onbPage = "own"
    /\ LET afterAuth == OnboardingAuthEffect(route)
           destination == IF afterAuth # route THEN afterAuth ELSE OnboardingAccessEffect(route)
       IN  /\ gate' = Evaluation("page", route, trial.hasSubscription, destination)
           /\ IF destination # route
              THEN Replace(destination)
              ELSE UNCHANGED <<route, onb, hook, sub, trial>>
    /\ UNCHANGED <<storeVars, session, onbPage, auth, srvVars>>

\* time passes
Tick ==
    /\ now < MaxTime
    /\ now' = now + 1
    /\ UNCHANGED <<accounts, prefs, subs, trials, navVars, srvVars>>

----------------------------------------------------------------------------
(* Client: the functions useOnboarding hands to its page *)

\* the step values a page passes to updateOnboardingStep
Steps == {1, 2, 3}
\* the plan ids a page passes as planId or sets with setSelectedPlan
PlanIds == {"pro", "enterprise"}

\* updateOnboardingStep: updateData
UpdateFields(userId, step, planId) ==
    IF planId # Null
    THEN [user_id |-> userId, onboarding_step |-> step, selected_plan_id |-> planId]
    ELSE [user_id |-> userId, onboarding_step |-> step]

\* completeOnboarding, the columns of its upsert
CompleteFields(userId, selectedPlan, t) ==
    [user_id |-> userId, has_completed_onboarding |-> TRUE,
     selected_plan_id |-> selectedPlan, onboarding_completed_at |-> t]

\* resetOnboarding, the columns of its upsert
ResetFields(userId, t) ==
    [user_id |-> userId, has_completed_onboarding |-> FALSE, onboarding_step |-> 1,
     selected_plan_id |-> Null, onboarding_started_at |-> t,
     onboarding_completed_at |-> NullTime]

\* setOnboardingData(prev => prev ? { ...prev, ...fields } : null)
MergeData(prev, fields) == IF prev.exists THEN fields @@ prev ELSE prev

\* a call of fetchOnboardingStatus by the page (manual refresh) or by
\* resetOnboarding: the cache entry is used while it is younger than
\* CACHE_DURATION
FetchOnboardingStatus ==
    /\ route \in Protected
    /\ ~auth.isLoading
    /\ IF CacheHit(hook.cache, auth.user)
       THEN /\ onb' = [onb EXCEPT !.isLoading = FALSE,
                                  !.data = hook.cache[auth.user].data,
                                  !.selectedPlan = hook.cache[auth.user].data.selected_plan_id]
            /\ hook' = [hook EXCEPT !.last = "fetch"]
       ELSE \E queryFails \in BOOLEAN :
                /\ onb' = fetchOnboardingStatus(auth.user, queryFails)
                /\ hook' = [hook EXCEPT
                               !.cache = CacheAfterFetch(@, auth.user, queryFails, onb'.data),
                               !.last = IF queryFails THEN "fetch-failed" ELSE "fetch"]
    /\ UNCHANGED <<storeVars, session, route, onbPage, auth, sub, trial, gate, srvVars>>

\* setSelectedPlan(planId)
SetSelectedPlan ==
    /\ route \in Protected
    /\ \E planId \in PlanIds \cup {Null} :
           /\ planId # onb.selectedPlan
           /\ onb' = [onb EXCEPT !.selectedPlan = planId]
    /\ UNCHANGED <<storeVars, session, route, onbPage, auth, hook, sub, trial, gate, srvVars>>

\* updateOnboardingStep(step, planId) for a signed-in user; an error result is
\* thrown into the catch
UpdateOnboardingStep ==
    /\ route \in Protected
    /\ auth.user # NoUser
    /\ \E step \in Steps, planId \in PlanIds \cup {Null}, outcome \in WriteOutcomes :
           LET updateData == UpdateFields(auth.user, step, planId) IN
           IF outcome = "ok"
           THEN /\ prefs' = Upsert(updateData, now)
                /\ onb' = [onb EXCEPT !.data = MergeData(@, updateData),
                                      !.selectedPlan = IF planId # Null THEN planId ELSE @]
                /\ hook' = [hook EXCEPT !.last = "update", !.wrote = TRUE]
           ELSE /\ prefs' = prefs
                /\ onb' = onb
                /\ hook' = [hook EXCEPT !.last = "update-failed"]
    /\ UNCHANGED <<now, accounts, subs, trials, session, route, onbPage, auth, sub, trial,
                   gate, srvVars>>

\* completeOnboarding() for a signed-in user with a selected plan;
\* router.replace('/dashboard') mounts the dashboard unless it is mounted
CompleteOnboarding ==
    /\ route \in Protected
    /\ auth.user # NoUser
    /\ onb.selectedPlan # Null
    /\ \E outcome \in WriteOutcomes :
           IF outcome = "ok"
           THEN /\ prefs' = Upsert(CompleteFields(auth.user, onb.selectedPlan, now), now)
                /\ IF route # DASHBOARD
                   THEN Replace(DASHBOARD)
                   ELSE /\ onb' = [onb EXCEPT
                                      !.data = MergeData(@,
                                                   [has_completed_onboarding |-> TRUE,
                                                    onboarding_completed_at |-> now])]
                        /\ hook' = [hook EXCEPT !.last = "complete", !.wrote = TRUE]
                        /\ UNCHANGED <<route, sub, trial>>
           ELSE /\ prefs' = prefs
                /\ hook' = [hook EXCEPT !.last = "complete-failed"]
                /\ UNCHANGED <<route, onb, sub, trial>>
    /\ UNCHANGED <<now, accounts, subs, trials, session, onbPage, auth, gate, srvVars>>

\* resetOnboarding() for a signed-in user, up to its refetch: the upsert and
\* onboardingCache.delete(user.id)
ResetOnboarding ==
    /\ route \in Protected
    /\ auth.user # NoUser
    /\ \E outcome \in WriteOutcomes :
           IF outcome = "ok"
           THEN /\ prefs' = Upsert(ResetFields(auth.user, now), now)
                /\ hook' = [hook EXCEPT !.cache = [@ EXCEPT ![auth.user] = NoEntry],
                                        !.last = "reset", !.wrote = TRUE]
           ELSE /\ prefs' = prefs
                /\ hook' = [hook EXCEPT !.last = "reset-failed"]
    /\ UNCHANGED <<now, accounts, subs, trials, session, route, onbPage, auth, onb, sub,
                   trial, gate, srvVars>>

----------------------------------------------------------------------------
(* Server: the signup trigger and the auth callback *)

\* handle_new_user, the trigger on auth.users: the account's row, its
\* preferences row and its trial, in one transaction
Signup(u) ==
    /\ u \notin accounts
    /\ CanInsert(u)
    /\ accounts' = accounts \cup {u}
    /\ prefs' = Insert(DefaultRow(u, FALSE, now))
    /\ trials' = [trials EXCEPT ![u] = TrialRow(now)]
    /\ UNCHANGED <<now, subs, navVars, srvVars>>

NoPreferences == [exists |-> FALSE, has_completed_onboarding |-> FALSE]

CbIdle ==
    [pc |-> "idle", next |-> Null, exchange |-> "none", user |-> NoUser, found |-> "unread",
     didInsert |-> FALSE, insertOk |-> FALSE, preferences |-> NoPreferences,
     redirect |-> Null]

\* the values of the next query parameter: absent, empty, a path
NextTargets == {Null, "", "/profile"}

\* JavaScript truthiness of searchParams.get('next')
Truthy(next) == next # Null /\ next # ""

\* the callback's redirect with the null check of preferences replaced by a
\* comparison with false
CallbackRedirect_StrictFalse(next, preferences) ==
    IF Truthy(next)
    THEN next
    ELSE IF preferences.exists /\ ~preferences.has_completed_onboarding
    THEN ONBOARDING
    ELSE DASHBOARD

\* the callback's redirect without the next parameter
CallbackRedirect_IgnoresNext(next, preferences) ==
    IF ~(preferences.exists /\ preferences.has_completed_onboarding)
    THEN ONBOARDING
    ELSE DASHBOARD

\* GET /auth/callback, from needsOnboarding to the redirect
CallbackRedirect(next, preferences) ==
    LET needsOnboarding == ~(preferences.exists /\ preferences.has_completed_onboarding)
    IN IF Truthy(next)
       THEN next
       ELSE IF needsOnboarding
       THEN ONBOARDING
       ELSE DASHBOARD

\* the callback inserting a completed row
CallbackNewRow_Completed(u, t) == DefaultRow(u, TRUE, t)

\* the row the callback inserts for a user without one
CallbackNewRow(u, t) == DefaultRow(u, FALSE, t)

\* the callback going on after a failed exchange as if no user came back
CallbackAfterExchange_ErrorIgnored(request, outcome) ==
    IF outcome \in {"error", "nouser"}
    THEN [request EXCEPT !.pc = "done", !.exchange = outcome, !.redirect = DASHBOARD]
    ELSE [request EXCEPT !.pc = "read", !.exchange = "user", !.user = outcome]

\* GET /auth/callback after exchangeCodeForSession: outcome is "error", "nouser"
\* (no error, data.user null) or the user's id
CallbackAfterExchange(request, outcome) ==
    IF outcome = "error"
    THEN [request EXCEPT !.pc = "done", !.exchange = "error", !.redirect = LOGIN_ERROR]
    ELSE IF outcome = "nouser"
    THEN [request EXCEPT !.pc = "done", !.exchange = "nouser", !.redirect = DASHBOARD]
    ELSE [request EXCEPT !.pc = "read", !.exchange = "user", !.user = outcome]

\* a request arrives at /auth/callback
CbStart ==
    /\ cb.pc \in {"idle", "done"}
    /\ \E hasCode \in BOOLEAN, next \in NextTargets :
           cb' = IF hasCode
                 THEN [CbIdle EXCEPT !.pc = "exchange", !.next = next]
                 ELSE [CbIdle EXCEPT !.pc = "done", !.next = next, !.redirect = LOGIN]
    /\ UNCHANGED <<storeVars, navVars, flowVars>>

\* await exchangeCodeForSession(code)
CbExchange ==
    /\ cb.pc = "exchange"
    /\ \E outcome \in {"error", "nouser"} \cup accounts :
           /\ cb' = CallbackAfterExchange(cb, outcome)
           /\ session' = IF cb'.exchange = "user" THEN cb'.user ELSE session
    /\ UNCHANGED <<storeVars, route, onbPage, auth, onb, hook, sub, trial, gate, flowVars>>

\* await select('has_completed_onboarding').eq('user_id', user.id).single()
CbRead ==
    /\ cb.pc = "read"
    /\ \E queryFails \in BOOLEAN :
           IF queryFails
           THEN cb' = [cb EXCEPT !.pc = "done", !.found = "error",
                                 !.redirect = CallbackRedirect(cb.next, NoPreferences)]
           ELSE IF HasRow(cb.user)
           THEN LET preferences ==
                        [exists |-> TRUE,
                         has_completed_onboarding |-> RowOf(cb.user).has_completed_onboarding]
                IN cb' = [cb EXCEPT !.pc = "done", !.found = "row",
                                    !.preferences = preferences,
                                    !.redirect = CallbackRedirect(cb.next, preferences)]
           ELSE cb' = [cb EXCEPT !.pc = "insert", !.found = "norow"]
    /\ UNCHANGED <<storeVars, navVars, flowVars>>

CallbackStore_Upserts(row, insertFails) ==
    IF insertFails THEN prefs ELSE Upsert(row, row.onboarding_started_at)

\* the callback's write is an insert: the store after it, unchanged when the
\* insert fails or the user already has a row
CallbackStore(row, insertFails) ==
    IF ~insertFails /\ CanInsert(row.user_id) THEN Insert(row) ELSE prefs

\* await insert({user_id, has_completed_onboarding: false}).select(...).single()
CbInsert ==
    /\ cb.pc = "insert"
    /\ \E insertFails \in BOOLEAN :
           LET row == CallbackNewRow(cb.user, now) IN
           /\ prefs' = CallbackStore(row, insertFails)
           /\ IF ~insertFails /\ CanInsert(cb.user)
              THEN LET preferences ==
                           [exists |-> TRUE,
                            has_completed_onboarding |-> row.has_completed_onboarding]
                   IN cb' = [cb EXCEPT !.pc = "done", !.didInsert = TRUE, !.insertOk = TRUE,
                                       !.preferences = preferences,
                                       !.redirect = CallbackRedirect(cb.next, preferences)]
              ELSE cb' = [cb EXCEPT !.pc = "done", !.didInsert = TRUE,
                                    !.redirect = CallbackRedirect(cb.next, NoPreferences)]
    /\ UNCHANGED <<now, accounts, subs, trials, navVars, flowVars>>

----------------------------------------------------------------------------
(* Server: the payment-success page (OnboardingSuccessPage) *)

\* POST /api/stripe/sync for user u: the subscriptions row takes the payment
\* provider's status
StripeSync(u) == [subs EXCEPT ![u] = billing[u]]

SyncOutcomes == {"ok", "non-ok", "throws"}

\* client_reference_id on the return URL: a user id or none
ReturnRefs == Users \cup {NoUser}

SucIdle ==
    [pc |-> "idle", user |-> NoUser, ref |-> NoUser, at |-> NullTime,
     upsert |-> "none", sync |-> "none",
     redirect |-> Null, first |-> [u \in Users |-> NullTime]]

Authenticated_Always(user) == TRUE

\* OnboardingSuccessPage: if (!user) redirect('/login')
Authenticated(user) == user # NoUser

SuccessTarget_FromReturnUrl(user, ref) == IF ref # NoUser THEN ref ELSE user

\* OnboardingSuccessPage: the id it writes and resyncs is user.id; the page
\* reads nothing of the request but the session cookie
SuccessTarget(user, ref) == user

SuccessFields_ErasesPlan(userId, t) ==
    [user_id |-> userId, has_completed_onboarding |-> TRUE, onboarding_completed_at |-> t,
     selected_plan_id |-> Null]

\* OnboardingSuccessPage, the columns of its upsert
SuccessFields(userId, t) ==
    [user_id |-> userId, has_completed_onboarding |-> TRUE, onboarding_completed_at |-> t]

SuccessRedirect_FailClosed(upsert, sync) ==
    IF upsert = "ok" /\ sync = "ok" THEN DASHBOARD ELSE ONBOARDING

\* OnboardingSuccessPage: "Always redirect to dashboard after processing"
SuccessRedirect(upsert, sync) == DASHBOARD

\* the request arrives with return parameter ref; getUser reads the session
\* and, for a user, the upsert is sent with the time of that moment
SucStart ==
    /\ suc.pc \in {"idle", "done"}
    /\ \E ref \in ReturnRefs :
           suc' = IF Authenticated(session)
                  THEN [suc EXCEPT !.pc = "upsert", !.user = session, !.ref = ref,
                                   !.at = now, !.upsert = "none", !.sync = "none", !.redirect = Null]
                  ELSE [suc EXCEPT !.pc = "done", !.user = session, !.ref = ref,
                                   !.at = now, !.upsert = "none", !.sync = "none", !.redirect = LOGIN]
    /\ UNCHANGED <<storeVars, navVars, cb, billing, sel, api>>

SuccessAfterUpsert_StopsOnError(outcome) == IF outcome = "ok" THEN "sync" ELSE "done"

\* OnboardingSuccessPage after its upsert: an error result is logged and the
\* sync follows; a throw leaves the outer try for its catch
SuccessAfterUpsert(outcome) == IF outcome = "throws" THEN "done" ELSE "sync"

\* the upsert answers; a request that skips the sync ends with the final
\* redirect
SucUpsert ==
    /\ suc.pc = "upsert"
    /\ \E outcome \in WriteOutcomes :
           LET target == SuccessTarget(suc.user, suc.ref)
               written == Upsert(SuccessFields(target, suc.at), now)
           IN  /\ prefs' = IF outcome = "ok" THEN written ELSE prefs
               /\ suc' = [suc EXCEPT
                              !.upsert = outcome,
                              !.pc = SuccessAfterUpsert(outcome),
                              !.redirect = IF SuccessAfterUpsert(outcome) = "done"
                                           THEN SuccessRedirect(outcome, "none")
                                           ELSE Null,
                              !.first = IF outcome = "ok" /\ suc.first[suc.user] = NullTime
                                        THEN [@ EXCEPT ![suc.user] = suc.at]
                                        ELSE @]
    /\ UNCHANGED <<now, accounts, subs, trials, navVars, cb, billing, sel, api>>

\* the fetch of /api/stripe/sync answers, then the final redirect
SucSync ==
    /\ suc.pc = "sync"
    /\ \E outcome \in SyncOutcomes :
           /\ subs' = IF outcome = "ok"
                      THEN StripeSync(SuccessTarget(suc.user, suc.ref))
                      ELSE subs
           /\ suc' = [suc EXCEPT !.sync = outcome, !.pc = "done",
                                 !.redirect = SuccessRedirect(suc.upsert, outcome)]
    /\ UNCHANGED <<now, accounts, prefs, trials, navVars, cb, billing, sel, api>>

----------------------------------------------------------------------------
(* Server: GET /api/user/onboarding-status *)

\* no request; status 0 stands for "no response yet"
ApiIdle ==
    [pc |-> "idle", user |-> NoUser, found |-> "unread", fault |-> FALSE,
     status |-> 0, has_completed_onboarding |-> FALSE]

\* the JSON body { data: { has_completed_onboarding } } with status 200
ApiAnswer(request, completed) ==
    [request EXCEPT !.pc = "done", !.status = 200, !.has_completed_onboarding = completed]

\* the JSON body { error } with an error status
ApiError(request, status) ==
    [request EXCEPT !.pc = "done", !.status = status]

\* await supabase.auth.getUser()
ApiStart ==
    /\ api.pc \in {"idle", "done"}
    /\ api' = IF session = NoUser
              THEN ApiError(ApiIdle, 401)
              ELSE [ApiIdle EXCEPT !.pc = "read", !.user = session]
    /\ UNCHANGED <<storeVars, navVars, cb, billing, sel, suc>>

\* await select('has_completed_onboarding').eq('user_id', user.id).single()
ApiRead ==
    /\ api.pc = "read"
    /\ \E queryFails \in BOOLEAN :
           IF queryFails
           THEN api' = ApiError([api EXCEPT !.found = "error", !.fault = TRUE], 500)
           ELSE IF HasRow(api.user)
           THEN api' = ApiAnswer([api EXCEPT !.found = "row"],
                                 RowOf(api.user).has_completed_onboarding)
           ELSE api' = [api EXCEPT !.pc = "insert", !.found = "norow"]
    /\ UNCHANGED <<storeVars, navVars, cb, billing, sel, suc>>

\* await insert({user_id, has_completed_onboarding: false}).select(...).single()
ApiInsert ==
    /\ api.pc = "insert"
    /\ \E insertFails \in BOOLEAN :
           IF ~insertFails /\ CanInsert(api.user)
           THEN LET row == CallbackNewRow(api.user, now)
                IN /\ prefs' = Insert(row)
                   /\ api' = ApiAnswer(api, row.has_completed_onboarding)
           ELSE /\ prefs' = prefs
                /\ api' = ApiError([api EXCEPT !.fault = insertFails], 500)
    /\ UNCHANGED <<now, accounts, subs, trials, navVars, cb, billing, sel, suc>>

----------------------------------------------------------------------------
(* Client: plan selection on the onboarding page (OnboardingPricing) *)

CONTACT_SALES == "/contact-sales"
PRO_PAYMENT_LINK == "NEXT_PUBLIC_STRIPE_PRO_PAYMENT_LINK"
ENTERPRISE_PAYMENT_LINK == "NEXT_PUBLIC_STRIPE_ENTERPRISE_PAYMENT_LINK"

pricingTiers ==
    {[id |-> "pro", stripePaymentLink |-> PRO_PAYMENT_LINK],
     [id |-> "enterprise", stripePaymentLink |-> ENTERPRISE_PAYMENT_LINK],
     [id |-> "custom", stripePaymentLink |-> Null]}

TierOf(id) == CHOOSE tier \in pricingTiers : tier.id = id

\* user.email of an account; the second account has none
EmailOf(u) == IF u = "u1" THEN "u1@example.com" ELSE Null

\* the props OnboardingPage hands to OnboardingPricing
UserEmailProp(u) == IF EmailOf(u) = Null THEN "" ELSE EmailOf(u)

\* window.location.href while it holds no payment URL
NoUrl == [link |-> Null, prefilled_email |-> "", client_reference_id |-> NoUser]

\* no pricing page mounted
SelIdle ==
    [mounted |-> FALSE, userId |-> NoUser, userEmail |-> "", isLoading |-> Null,
     clicks |-> 0, last |-> Null, calls |-> {}, ended |-> {},
     pushed |-> Null, href |-> NoUrl]

\* OnboardingPricing as OnboardingPage renders it for the signed-in user u
SelMounted(u) ==
    [SelIdle EXCEPT !.mounted = TRUE, !.userId = u, !.userEmail = UserEmailProp(u)]

IsContactTier_Never(tier) == FALSE

\* handlePlanSelect, the guard on a tier without payment link
IsContactTier(tier) == tier.stripePaymentLink = Null

PlanFields_StepOne(userId, tier, t) ==
    [user_id |-> userId, selected_plan_id |-> tier.id, onboarding_step |-> 1,
     onboarding_started_at |-> t]

\* handlePlanSelect, the columns of its upsert
PlanFields(userId, tier, t) ==
    [user_id |-> userId, selected_plan_id |-> tier.id, onboarding_step |-> 2,
     onboarding_started_at |-> t]

\* handlePlanSelect, the payment URL: the tier's link with two search params
PaymentUrl(tier, userEmail, userId) ==
    [link |-> tier.stripePaymentLink, prefilled_email |-> userEmail,
     client_reference_id |-> userId]

\* a click on tier's button: handlePlanSelect up to its await
PlanSelect(tier) ==
    /\ sel.mounted
    /\ sel.isLoading # tier.id
    /\ sel.clicks < MaxClicks
    /\ IF IsContactTier(tier)
       THEN sel' = [sel EXCEPT !.clicks = @ + 1, !.last = tier.id,
                               !.pushed = CONTACT_SALES, !.mounted = FALSE]
       ELSE sel' = [sel EXCEPT !.clicks = @ + 1, !.last = tier.id,
                               !.isLoading = tier.id,
                               !.calls = @ \cup {[n |-> sel.clicks + 1, tier |-> tier.id,
                                                  at |-> now]}]
    /\ UNCHANGED <<storeVars, navVars, cb, billing, suc, api>>

\* handlePlanSelect after its await: the upsert of call c answered with outcome
PlanSelectResume(c, outcome) ==
    /\ c \in sel.calls
    /\ LET tier == TierOf(c.tier)
           paymentUrl == PaymentUrl(tier, sel.userEmail, sel.userId)
       IN  /\ prefs' = IF outcome = "ok"
                       THEN Upsert(PlanFields(sel.userId, tier, c.at), now)
                       ELSE prefs
           /\ IF outcome = "throws"
              THEN sel' = [sel EXCEPT !.calls = @ \ {c},
                                      !.isLoading = IF sel.mounted THEN Null ELSE @,
                                      !.ended = @ \cup {[n |-> c.n, tier |-> c.tier,
                                                         outcome |-> outcome,
                                                         redirected |-> FALSE,
                                                         href |-> NoUrl]}]
              ELSE sel' = [sel EXCEPT !.calls = @ \ {c},
                                      !.mounted = FALSE,
                                      !.href = paymentUrl,
                                      !.ended = @ \cup {[n |-> c.n, tier |-> c.tier,
                                                         outcome |-> outcome,
                                                         redirected |-> TRUE,
                                                         href |-> paymentUrl]}]
    /\ UNCHANGED <<now, accounts, subs, trials, navVars, cb, billing, suc, api>>

----------------------------------------------------------------------------
(* The client machine *)

\* the rows the server flow leaves for user u: created (callback, trigger),
\* plan recorded, completed after a recorded plan, completed with no plan
StoredRows(u) ==
    {DefaultRow(u, FALSE, 1),
     [DefaultRow(u, FALSE, 1) EXCEPT !.selected_plan_id = "pro", !.onboarding_step = 2],
     [DefaultRow(u, TRUE, 1) EXCEPT !.selected_plan_id = "pro", !.onboarding_step = 2,
                                     !.onboarding_completed_at = 1],
     [DefaultRow(u, TRUE, 1) EXCEPT !.onboarding_completed_at = 1]}

StoredTrials ==
    {NoTrial} \cup
    {[exists |-> TRUE, trial_end_time |-> e, is_trial_used |-> used] :
         e \in {1, 1 + TrialTicks}, used \in BOOLEAN}

InitNav ==
    /\ now = 1
    /\ session \in {"u1", NoUser}
    /\ accounts = Users
    /\ \E rows \in {{}} \cup {{r} : r \in StoredRows("u1")} : prefs = rows
    /\ \E st \in SubStatus : subs = [u \in Users |-> IF u = "u1" THEN st ELSE "absent"]
    /\ \E tr \in StoredTrials : trials = [u \in Users |-> IF u = "u1" THEN tr ELSE NoTrial]
    /\ route \in Protected
    /\ onbPage \in {"own", "nav"}
    /\ auth = AuthInit
    /\ onb = OnbInit
    /\ hook = HookInit
    /\ sub = SubInit
    /\ trial = TrialInit
    /\ gate = GateInit
    /\ cb = CbIdle
    /\ billing = subs
    /\ sel = SelIdle
    /\ suc = SucIdle
    /\ api = ApiIdle

NextNav ==
    \/ AuthLoad
    \/ OnbFetch
    \/ SubFetch
    \/ TrialCheck
    \/ NavigationEffect
    \/ OnboardingPageEffects
    \/ Tick

SpecNav == InitNav /\ [][NextNav]_vars

----------------------------------------------------------------------------
(* The onboarding gate, as the navigation effects evaluate it *)

\* an effect evaluated the gate with all four signals loaded
Decided == gate.ran /\ gate.settled

\* C1: a settled evaluation for a signed-in user with an active or trialing
\* subscription has destination /dashboard, whatever the trial, onboarding
\* and plan inputs are.
C1_SubscriptionRule ==
    (Decided /\ gate.user # NoUser /\ gate.subscribed) => gate.dest = DASHBOARD

\* getDestination sends a subscriber whose onboarding is not completed from
\* /onboarding to /dashboard
C1_Witness ==
    /\ Decided /\ gate.by = "nav" /\ gate.page = ONBOARDING
    /\ gate.user # NoUser /\ gate.subscribed /\ ~gate.completed
    /\ gate.redirected /\ route = DASHBOARD

\* C2: a settled evaluation with no user has destination /login.
C2_AuthenticationRule ==
    (Decided /\ gate.user = NoUser) => gate.dest = LOGIN

\* getDestination sends a signed-out visitor of /dashboard to /login
C2_Witness ==
    /\ Decided /\ gate.by = "nav" /\ gate.page = DASHBOARD
    /\ gate.user = NoUser /\ gate.redirected /\ route = LOGIN

\* C3: a settled evaluation for a signed-in user without subscription who is
\* in trial has destination /dashboard, at every evaluator.
C3_TrialRule ==
    (Decided /\ gate.user # NoUser /\ ~gate.subscribed /\ gate.isInTrial)
        => gate.dest = DASHBOARD

\* C4: a settled evaluation for a signed-in user without subscription, not in
\* trial, who completed onboarding and selected a plan has destination
\* /dashboard.
C4_CompletedRule ==
    (Decided /\ gate.user # NoUser /\ ~gate.subscribed /\ ~gate.isInTrial
        /\ gate.completed /\ gate.hasPlan)
        => gate.dest = DASHBOARD

\* C5: a settled evaluation for a signed-in user with no subscription, no
\* trial, onboarding not completed and no plan has destination /onboarding,
\* and on /onboarding it redirects nowhere.
C5_DefaultRule ==
    (Decided /\ gate.user # NoUser /\ ~gate.subscribed /\ ~gate.isInTrial
        /\ ~gate.completed /\ ~gate.hasPlan)
        => (gate.dest = ONBOARDING /\ (gate.page = ONBOARDING => ~gate.redirected))

\* both evaluators of /onboarding leave such a user there, and getDestination
\* sends them there from /dashboard
C5_Witness ==
    /\ Decided /\ gate.user # NoUser /\ ~gate.subscribed /\ ~gate.isInTrial
    /\ ~gate.completed /\ ~gate.hasPlan
    /\ gate.page = ONBOARDING /\ ~gate.redirected /\ route = ONBOARDING
    /\ onb.data.exists /\ ~trial.isLoading /\ trial.ranFor = auth.user

----------------------------------------------------------------------------
(* The server machine *)

\* accounts older than the signup trigger have no preferences row and no
\* trial; their rows are the ones the flow leaves
InitialStore(legacy, rowOf, statusOf) ==
    /\ accounts = legacy
    /\ prefs = UNION {rowOf[u] : u \in legacy}
    /\ subs = [u \in Users |-> IF u \in legacy THEN statusOf[u] ELSE "absent"]
    /\ trials = [u \in Users |-> NoTrial]

Init ==
    /\ now = 1
    /\ \E legacy \in SUBSET Users :
       \E rowOf \in [legacy -> {{}} \cup {{r} : r \in UNION {StoredRows(u) : u \in legacy}}],
          statusOf \in [legacy -> SubStatus] :
           /\ \A u \in legacy : \A r \in rowOf[u] : r.user_id = u
           /\ InitialStore(legacy, rowOf, statusOf)
    /\ session = NoUser
    /\ route = LOGIN
    /\ onbPage = "own"
    /\ auth = AuthInit
    /\ onb = OnbInit
    /\ hook = HookInit
    /\ sub = SubInit
    /\ trial = TrialInit
    /\ gate = GateInit
    /\ cb = CbIdle
    /\ billing = subs
    /\ sel = SelIdle
    /\ suc = SucIdle
    /\ api = ApiIdle

Next ==
    \/ \E u \in Users : Signup(u)
    \/ CbStart
    \/ CbExchange
    \/ CbRead
    \/ CbInsert
    \/ Tick

Spec == Init /\ [][Next]_vars

----------------------------------------------------------------------------
(* The session bootstrap handler (GET /auth/callback) *)

\* the callback ended for a signed-in user
CbDoneForUser == cb.pc = "done" /\ cb.exchange = "user"

\* the step in which the callback answers a signed-in user
CbAnswers == cb.pc \in {"read", "insert"} /\ cb'.pc = "done"

\* the route the callback computes from the preferences it holds
ComputedRoute(preferences) ==
    IF preferences.exists /\ preferences.has_completed_onboarding
    THEN DASHBOARD
    ELSE ONBOARDING

\* C6: with no next target, the callback's redirect for a user is the
\* destination getDestination yields for that user's state at that moment.
C6_SingleGate ==
    [][(CbAnswers /\ ~Truthy(cb.next))
          => cb'.redirect = getDestination(cb.user, IsSubscriberOf(cb.user))]_vars

\* C7: when the callback finds no row for the user and its insert is
\* accepted, the store holds exactly one row of that user, the default row
\* with has_completed_onboarding = false and onboarding_step = 1, and with no
\* next target the redirect is /onboarding.
C7_LazyCreation ==
    [][(cb.pc = "insert" /\ cb'.pc = "done" /\ cb'.insertOk)
          => /\ RowsOf(cb.user)' = {DefaultRow(cb.user, FALSE, now)}
             /\ \A r \in RowsOf(cb.user)' :
                    ~r.has_completed_onboarding /\ r.onboarding_step = 1
             /\ ~Truthy(cb.next) => cb'.redirect = ONBOARDING]_vars

\* the callback created the row of a user who had none and sent them to
\* /onboarding
C7_Witness ==
    /\ CbDoneForUser /\ cb.found = "norow" /\ cb.insertOk /\ cb.next = Null
    /\ cb.redirect = ONBOARDING
    /\ Cardinality(RowsOf(cb.user)) = 1

C9_ExplicitTarget ==
    CbDoneForUser =>
        /\ Truthy(cb.next) => cb.redirect = cb.next
        /\ ~Truthy(cb.next) => cb.redirect = ComputedRoute(cb.preferences)
        /\ cb.found # "unread"
        /\ cb.found = "norow" => cb.didInsert
        /\ cb.insertOk => HasRow(cb.user)

\* a request with next=/profile for a user without a row: the row was created
\* and the redirect is /profile
C9_Witness ==
    /\ CbDoneForUser /\ cb.next = "/profile" /\ cb.redirect = "/profile"
    /\ cb.found = "norow" /\ cb.insertOk /\ HasRow(cb.user)

\* C10: when the code exchange fails the callback ends with the redirect to
\* /login?error=auth-failed: no user, no read, no insert, and the step leaves
\* user_preferences as it was.
C10_ExchangeFailure ==
    /\ [](cb.exchange = "error"
            => /\ cb.pc = "done"
               /\ cb.redirect = LOGIN_ERROR
               /\ cb.user = NoUser
               /\ cb.found = "unread"
               /\ ~cb.didInsert)
    /\ [][(cb.pc = "exchange" /\ cb'.exchange = "error") => prefs' = prefs]_vars

\* the exchange failed for a request that carried a next target
C10_Witness ==
    /\ cb.pc = "done" /\ cb.exchange = "error" /\ cb.redirect = LOGIN_ERROR
    /\ cb.next = "/profile"

----------------------------------------------------------------------------
(* The plan selection machine: one pricing page of a signed-in user *)

InitPlan ==
    /\ now = 1
    /\ session \in Users
    /\ accounts = Users
    /\ \E rows \in {{}} \cup {{r} : r \in StoredRows(session)} :
           prefs = rows \cup {DefaultRow(u, FALSE, 1) : u \in Users \ {session}}
    /\ subs = [u \in Users |-> "absent"]
    /\ trials = [u \in Users |-> NoTrial]
    /\ route = ONBOARDING
    /\ onbPage = "own"
    /\ auth = [isLoading |-> FALSE, user |-> session, isSubscriber |-> FALSE]
    /\ onb = OnbInit
    /\ hook = HookInit
    /\ sub = SubInit
    /\ trial = TrialInit
    /\ gate = GateInit
    /\ cb = CbIdle
    /\ billing = subs
    /\ sel = SelMounted(session)
    /\ suc = SucIdle
    /\ api = ApiIdle

NextPlan ==
    \/ \E tier \in pricingTiers : PlanSelect(tier)
    \/ \E c \in sel.calls, outcome \in WriteOutcomes : PlanSelectResume(c, outcome)
    \/ Tick

SpecPlan == InitPlan /\ [][NextPlan]_vars

\* the step is a click on the control of tier id
Clicked(id) == sel'.clicks = sel.clicks + 1 /\ sel'.last = id

\* the calls of handlePlanSelect that end in the step
Ending == sel'.ended \ sel.ended

\* C11: a click on the "custom" plan, which has no payment link, sends the
\* tab to the contact route, assigns no payment URL to the location, starts
\* no upsert and leaves user_preferences as it is.
C11_CustomPlan ==
    [][Clicked("custom") =>
           /\ sel'.pushed = CONTACT_SALES
           /\ sel'.href = sel.href
           /\ sel'.calls = sel.calls
           /\ prefs' = prefs]_vars

\* the custom plan was chosen on a page that had assigned no payment URL
C11_Witness ==
    sel.last = "custom" /\ sel.pushed = CONTACT_SALES /\ sel.href = NoUrl

\* C12: every call of handlePlanSelect for a plan with a payment link that
\* has ended has issued the redirect to the payment provider, whether its
\* upsert succeeded, returned an error or threw.
C12_RedirectDespiteFailure ==
    \A e \in sel.ended : e.redirected

\* C13: when the upsert of a click on plan p succeeds, the row of the
\* signed-in user holds selected_plan_id = p and onboarding_step = 2 and no
\* other user's row changes; a redirect that is issued goes to p's payment
\* link with the signed-in user's email as prefilled_email and id as
\* client_reference_id.
C13_SelectionEffect ==
    [][\A e \in Ending :
           /\ e.outcome = "ok" =>
                  /\ RowsOf(session)' # {}
                  /\ \A r \in RowsOf(session)' :
                         r.selected_plan_id = e.tier /\ r.onboarding_step = 2
                  /\ \A u \in Users \ {session} : RowsOf(u)' = RowsOf(u)
           /\ e.redirected =>
                  /\ sel'.href = e.href
                  /\ e.href.link = TierOf(e.tier).stripePaymentLink
                  /\ e.href.link # Null
                  /\ e.href.prefilled_email = UserEmailProp(session)
                  /\ e.href.client_reference_id = session]_vars

\* a recorded selection of each plan with a payment link, redirected with the
\* user's email
C13_Witness ==
    /\ \E e \in sel.ended : e.outcome = "ok" /\ e.redirected /\ e.tier = "enterprise"
    /\ sel.href.prefilled_email = "u1@example.com"
    /\ \E r \in RowsOf(session) : r.selected_plan_id = "enterprise" /\ r.onboarding_step = 2

\* C14: while a call of handlePlanSelect is in flight its control is locked,
\* and at most one call is in flight in the tab.
C14_NoConcurrentRedirects ==
    /\ Cardinality(sel.calls) <= 1
    /\ \A c \in sel.calls : sel.isLoading = c.tier

----------------------------------------------------------------------------
(* The payment-success machine: requests for /onboarding/success *)

\* the rows of StoredRows(u) that a recorded plan precedes
RowsBeforePayment(u) ==
    {r \in StoredRows(u) : r.has_completed_onboarding => r.selected_plan_id # Null}

InitDone ==
    /\ now = 1
    /\ session \in Users \cup {NoUser}
    /\ accounts = Users
    /\ \E r1 \in {{}} \cup {{r} : r \in RowsBeforePayment("u1")},
          r2 \in {{}, {DefaultRow("u2", FALSE, 1)}} : prefs = r1 \cup r2
    /\ subs = [u \in Users |-> "absent"]
    /\ trials = [u \in Users |-> NoTrial]
    /\ route = ONBOARDING
    /\ onbPage = "own"
    /\ auth = AuthInit
    /\ onb = OnbInit
    /\ hook = HookInit
    /\ sub = SubInit
    /\ trial = TrialInit
    /\ gate = GateInit
    /\ cb = CbIdle
    /\ \E paid \in SUBSET Users :
           billing = [u \in Users |-> IF u \in paid THEN "active" ELSE "absent"]
    /\ sel = SelIdle
    /\ suc = SucIdle
    /\ api = ApiIdle

NextDone ==
    \/ SucStart
    \/ SucUpsert
    \/ SucSync
    \/ Tick

SpecDone == InitDone /\ [][NextDone]_vars

\* C15: a request of an authenticated user that has ended was redirected to
\* /dashboard, whatever the upsert (ok, error, throws) and the resync (ok,
\* non-ok, throws) answered, and a request in flight can always take its
\* next step.
C15_FailOpen ==
    /\ (suc.pc = "done" /\ suc.user # NoUser) => suc.redirect = DASHBOARD
    /\ suc.pc = "upsert" => ENABLED SucUpsert
    /\ suc.pc = "sync" => ENABLED SucSync

\* both the upsert and the resync failed and the request ended on /dashboard
C15_Witness ==
    /\ suc.pc = "done" /\ suc.user # NoUser
    /\ suc.upsert = "error" /\ suc.sync = "throws"
    /\ suc.redirect = DASHBOARD

\* C16: a request without authenticated session ends at once with the
\* redirect to /login: it runs neither the upsert nor the resync, and the
\* step changes no user_preferences or subscriptions row.
C16_Unauthenticated ==
    /\ [](suc.user = NoUser => /\ suc.pc \in {"idle", "done"}
                               /\ suc.upsert = "none" /\ suc.sync = "none"
                               /\ suc.pc = "done" => suc.redirect = LOGIN)
    /\ [][suc'.user = NoUser => (prefs' = prefs /\ subs' = subs)]_vars

\* a signed-out request was sent to /login
C16_Witness ==
    suc.pc = "done" /\ suc.user = NoUser /\ session = NoUser /\ suc.redirect = LOGIN

\* C17: once a request has marked a user complete, later requests for that
\* user leave has_completed_onboarding = true and the onboarding_completed_at
\* the first one wrote.
C17_Idempotent ==
    \A u \in Users :
        suc.first[u] # NullTime =>
            \A r \in RowsOf(u) : /\ r.has_completed_onboarding
                                 /\ r.onboarding_completed_at = suc.first[u]

\* C18: the user whose row is marked complete and whose subscription is
\* resynced is the session's user, whatever client_reference_id the return
\* URL carries.
C18_SessionIdentity ==
    /\ [](suc.pc \in {"upsert", "sync"} => suc.user = session)
    /\ [][\A u \in Users :
              (RowsOf(u)' # RowsOf(u) \/ subs'[u] # subs[u]) => u = suc.user]_vars

\* a request whose return URL named the other user marked and resynced the
\* session's user
C18_Witness ==
    /\ suc.pc = "done" /\ suc.user = "u1" /\ suc.ref = "u2"
    /\ suc.upsert = "ok" /\ suc.sync = "ok"
    /\ \A r \in RowsOf("u1") : r.has_completed_onboarding
    /\ \A r \in RowsOf("u2") : ~r.has_completed_onboarding
    /\ subs["u1"] = "active" /\ subs["u2"] = "absent" /\ billing["u2"] = "active"

\* C19: every user_preferences row with has_completed_onboarding = true has
\* a selected plan and a completion time.
C19_CompletedRow ==
    \A r \in prefs :
        r.has_completed_onboarding =>
            (r.selected_plan_id # Null /\ r.onboarding_completed_at # NullTime)

----------------------------------------------------------------------------
(* The first-access machine: the creators of a user's preferences row *)

InitFirst ==
    /\ now = 1
    /\ accounts \in SUBSET Users
    /\ session \in accounts \cup {NoUser}
    /\ prefs = {}
    /\ subs = [u \in Users |-> "absent"]
    /\ trials = [u \in Users |-> NoTrial]
    /\ route = LOGIN
    /\ onbPage = "own"
    /\ auth = AuthInit
    /\ onb = OnbInit
    /\ hook = HookInit
    /\ sub = SubInit
    /\ trial = TrialInit
    /\ gate = GateInit
    /\ cb = CbIdle
    /\ billing = subs
    /\ sel = SelIdle
    /\ suc = SucIdle
    /\ api = ApiIdle

NextFirst ==
    \/ \E u \in Users : Signup(u)
    \/ CbStart
    \/ CbExchange
    \/ CbRead
    \/ CbInsert
    \/ ApiStart
    \/ ApiRead
    \/ ApiInsert
    \/ Tick

SpecFirst == InitFirst /\ [][NextFirst]_vars

\* C20: whatever the interleaving of the signup trigger, the auth callback
\* and the onboarding-status endpoint for a user without row, the user has at
\* most one row, exactly one once a creator has answered normally, and a
\* caller the store answered without fault gets a normal result for a fresh
\* user: the callback the onboarding redirect, the endpoint status 200 with
\* has_completed_onboarding = false.
C20_FirstAccess ==
    /\ \A u \in Users : Cardinality(RowsOf(u)) <= 1
    /\ (cb.pc = "done" /\ cb.exchange = "user" /\ cb.found # "error" /\ ~Truthy(cb.next))
           => cb.redirect = ONBOARDING
    /\ (api.pc = "done" /\ api.user # NoUser /\ ~api.fault)
           => /\ api.status = 200
              /\ ~api.has_completed_onboarding
              /\ Cardinality(RowsOf(api.user)) = 1

----------------------------------------------------------------------------
(* The navigation guard of the mounted page *)

\* C22: an evaluation of a navigation effect made while one of the four
\* signals (auth, onboarding record, subscription, trial) was loading issued
\* no redirect.
C22_NoPrematureRedirect ==
    (gate.ran /\ ~gate.settled) => ~gate.redirected

\* a step in which a page built on useNavigation evaluated its guard
NavEvaluated == gate'.by = "nav" /\ (gate' # gate \/ route' # route)

\* C23: with all four signals settled, the guard of useNavigation leaves the
\* tab on getDestination(): it replaces the route exactly when the current
\* route differs from the destination, and shouldShowPage(p) is true exactly
\* when the destination is p.
C23_SettledGuard ==
    /\ [](~NavIsLoading =>
              \A p \in Protected :
                  shouldShowPage(p) <=> (getDestination(auth.user, auth.isSubscriber) = p))
    /\ []((gate.by = "nav" /\ gate.settled) =>
              /\ gate.dest = getDestination(gate.user, gate.subscribed)
              /\ gate.redirected <=> (gate.page # gate.dest))
    /\ [][(NavEvaluated /\ ~NavIsLoading) =>
              /\ route' = getDestination(auth.user, auth.isSubscriber)
              /\ (route' # route) <=> (route # getDestination(auth.user, auth.isSubscriber))]_vars

\* a settled guard replaced /dashboard by /onboarding for a signed-in user
\* without subscription
C23_Witness ==
    /\ gate.by = "nav" /\ gate.settled /\ gate.page = DASHBOARD
    /\ gate.user # NoUser /\ ~gate.subscribed
    /\ gate.redirected /\ gate.dest = ONBOARDING /\ route = ONBOARDING

----------------------------------------------------------------------------
(* The order of the payment-success page's effects *)

\* C24: a request of an authenticated user attempts the upsert, and before
\* the resync; the answer of the resync leaves user_preferences as the
\* upsert left it; an error result of the upsert is followed by the resync.
C24_EffectOrder ==
    /\ []((suc.user # NoUser /\ suc.pc \in {"sync", "done"}) => suc.upsert # "none")
    /\ [](suc.sync # "none" => suc.upsert \in {"ok", "error"})
    /\ []((suc.pc = "done" /\ suc.upsert = "error") => suc.sync # "none")
    /\ []((suc.pc \in {"sync", "done"} /\ suc.upsert = "ok") =>
              \A r \in RowsOf(suc.user) :
                  r.has_completed_onboarding /\ r.onboarding_completed_at = suc.at)
    /\ [][suc.pc = "sync" => prefs' = prefs]_vars

\* the upsert was applied, the resync answered non-ok, the row stays complete
C24_Witness ==
    /\ suc.pc = "done" /\ suc.upsert = "ok" /\ suc.sync = "non-ok"
    /\ \E r \in RowsOf(suc.user) :
           r.has_completed_onboarding /\ r.onboarding_completed_at = suc.at

----------------------------------------------------------------------------
(* The race machine: a pricing page and payment-success requests of one user *)

InitRace ==
    /\ now = 1
    /\ session = "u1"
    /\ accounts = Users
    /\ prefs \in {{}, {DefaultRow(session, FALSE, 1)}}
    /\ subs = [u \in Users |-> "absent"]
    /\ trials = [u \in Users |-> NoTrial]
    /\ route = ONBOARDING
    /\ onbPage = "own"
    /\ auth = [isLoading |-> FALSE, user |-> session, isSubscriber |-> FALSE]
    /\ onb = OnbInit
    /\ hook = HookInit
    /\ sub = SubInit
    /\ trial = TrialInit
    /\ gate = GateInit
    /\ cb = CbIdle
    /\ billing = [u \in Users |-> "active"]
    /\ sel = SelMounted(session)
    /\ suc = SucIdle
    /\ api = ApiIdle

NextRace ==
    \/ \E tier \in pricingTiers : PlanSelect(tier)
    \/ \E c \in sel.calls, outcome \in WriteOutcomes : PlanSelectResume(c, outcome)
    \/ SucStart
    \/ SucUpsert
    \/ SucSync

SpecRace == InitRace /\ [][NextRace]_vars

\* the plans whose plan-selection upsert was applied
Recorded == {e.tier : e \in {x \in sel.ended : x.outcome = "ok"}}

\* C25: once a plan-selection upsert and a payment-success upsert have both
\* been applied to the user's row, in any order and any number of times, the
\* row is complete with its completion time and holds a recorded plan with
\* onboarding_step 2: the plan p itself when p is the only plan recorded.
C25_RecorderReconcilerRace ==
    (Recorded # {} /\ suc.first[session] # NullTime) =>
        /\ Cardinality(RowsOf(session)) = 1
        /\ \A r \in RowsOf(session) :
               /\ r.has_completed_onboarding
               /\ r.onboarding_completed_at # NullTime
               /\ r.selected_plan_id \in Recorded
               /\ r.onboarding_step = 2

\* the selection of "pro" was applied twice and the payment-success upsert
\* once, and the row holds both
C25_Witness ==
    /\ Recorded = {"pro"}
    /\ Cardinality({e \in sel.ended : e.outcome = "ok"}) = 2
    /\ suc.first[session] # NullTime /\ suc.pc = "done"
    /\ \E r \in RowsOf(session) :
           /\ r.has_completed_onboarding /\ r.selected_plan_id = "pro"
           /\ r.onboarding_completed_at # NullTime /\ r.onboarding_step = 2

----------------------------------------------------------------------------
(* The bootstrap machine: auth callbacks of a user racing with one plan    *)
(* selection and one payment-success request of that user                  *)

InitBoot ==
    /\ now = 1
    /\ session = "u1"
    /\ accounts = {"u1"}
    /\ prefs \in {{}} \cup {{r} : r \in StoredRows("u1")}
    /\ subs = [u \in Users |-> "absent"]
    /\ trials = [u \in Users |-> NoTrial]
    /\ route = ONBOARDING
    /\ onbPage = "own"
    /\ auth = [isLoading |-> FALSE, user |-> session, isSubscriber |-> FALSE]
    /\ onb = OnbInit
    /\ hook = HookInit
    /\ sub = SubInit
    /\ trial = TrialInit
    /\ gate = GateInit
    /\ cb = CbIdle
    /\ billing = [u \in Users |-> "active"]
    /\ sel = SelMounted(session)
    /\ suc = SucIdle
    /\ api = ApiIdle

NextBoot ==
    \/ CbStart
    \/ CbExchange
    \/ CbRead
    \/ CbInsert
    \/ sel.clicks = 0 /\ \E tier \in pricingTiers : PlanSelect(tier)
    \/ \E c \in sel.calls, outcome \in WriteOutcomes : PlanSelectResume(c, outcome)
    \/ suc.pc = "idle" /\ SucStart
    \/ SucUpsert
    \/ SucSync
    \/ Tick

SpecBoot == InitBoot /\ [][NextBoot]_vars

\* C30: a step of the auth callback leaves every existing user_preferences
\* row as it is, whether the row was there when the callback started or was
\* created by the payment-success page or the plan selection between the
\* callback's read and its insert.
C30_BootstrapNeverOverwrites ==
    [][cb' # cb => \A u \in Users : HasRow(u) => RowsOf(u)' = RowsOf(u)]_vars

\* the callback read "no row", the payment-success page then created the
\* completed row, the callback's insert was refused and the row stands
C30_Witness ==
    /\ cb.pc = "done" /\ cb.found = "norow" /\ cb.didInsert /\ ~cb.insertOk
    /\ suc.upsert = "ok"
    /\ \E r \in RowsOf(cb.user) :
           r.has_completed_onboarding /\ r.onboarding_completed_at # NullTime

----------------------------------------------------------------------------
(* The hook machine: useOnboarding of a mounted page of a signed-in user *)

InitHook ==
    /\ now = 1
    /\ session = "u1"
    /\ accounts = Users
    /\ prefs \in {{}} \cup {{r} : r \in RowsBeforePayment(session)}
    /\ subs = [u \in Users |-> "absent"]
    /\ trials = [u \in Users |-> NoTrial]
    /\ route = ONBOARDING
    /\ onbPage = "own"
    /\ auth = [isLoading |-> FALSE, user |-> session, isSubscriber |-> FALSE]
    /\ onb = OnbInit
    /\ hook = HookInit
    /\ sub = SubInit
    /\ trial = TrialInit
    /\ gate = GateInit
    /\ cb = CbIdle
    /\ billing = subs
    /\ sel = SelIdle
    /\ suc = SucIdle
    /\ api = ApiIdle

NextHook ==
    \/ OnbFetch
    \/ FetchOnboardingStatus
    \/ SetSelectedPlan
    \/ UpdateOnboardingStep
    \/ CompleteOnboarding
    \/ ResetOnboarding
    \/ Tick

SpecHook == InitHook /\ [][NextHook]_vars

\* C26: no write of a user's preferences row lowers its onboarding_step.
C26_MonotonicStep ==
    [][\A u \in Users :
           HasRow(u) => \A r \in RowsOf(u)' : r.onboarding_step >= RowOf(u).onboarding_step]_vars

\* the columns the hook's writes set, as the hook's state or a row holds them
Progress(d) ==
    <<d.has_completed_onboarding, d.onboarding_step, d.selected_plan_id,
      d.onboarding_completed_at>>

\* C28: after a successful write through the hook, a call of
\* fetchOnboardingStatus that does not fail leaves the stored values of
\* has_completed_onboarding, onboarding_step, selected_plan_id and
\* onboarding_completed_at in the hook's state.
C28_CacheInvalidation ==
    (hook.last = "fetch" /\ hook.wrote /\ HasRow(auth.user)) =>
        Progress(onb.data) = Progress(RowOf(auth.user))

----------------------------------------------------------------------------
(* The guards of the protected pages, followed until they stop redirecting *)

\* the listener of the onboarding_updates channel: an UPDATE of the user's
\* row reaches the mounted hook, whose state held the row as it was before
RealtimeUpdate ==
    /\ route \in Protected
    /\ auth.user # NoUser
    /\ HasRow(auth.user)
    /\ onb.ranFor = auth.user
    /\ onb.data.exists
    /\ onb.data # DataOf(RowOf(auth.user))
    /\ onb' = [onb EXCEPT !.data = DataOf(RowOf(auth.user)),
                          !.selectedPlan = RowOf(auth.user).selected_plan_id]
    /\ UNCHANGED <<storeVars, session, route, onbPage, auth, hook, sub, trial, gate, srvVars>>

\* AuthContext follows the user's subscription: isSubscriber takes the
\* stored status when that has changed
AuthRefresh ==
    /\ route \in Protected
    /\ ~auth.isLoading
    /\ auth.user # NoUser
    /\ auth.isSubscriber # IsSubscriberOf(auth.user)
    /\ auth' = [auth EXCEPT !.isSubscriber = IsSubscriberOf(auth.user)]
    /\ UNCHANGED <<storeVars, session, route, onbPage, onb, hook, sub, trial, gate, srvVars>>

\* a user whose row holds a selected plan opens a protected page; the
\* user's payment is active at the payment provider and no subscription is
\* stored yet
InitLive ==
    /\ now = 1
    /\ session = "u1"
    /\ accounts = Users
    /\ \E r \in {x \in StoredRows("u1") : x.selected_plan_id # Null} : prefs = {r}
    /\ subs = [u \in Users |-> "absent"]
    /\ \E tr \in {NoTrial, TrialRow(now - TrialTicks)} :
           trials = [u \in Users |-> IF u = "u1" THEN tr ELSE NoTrial]
    /\ route \in Protected
    /\ onbPage \in {"own", "nav"}
    /\ auth = AuthInit
    /\ onb = OnbInit
    /\ hook = HookInit
    /\ sub = SubInit
    /\ trial = TrialInit
    /\ gate = GateInit
    /\ cb = CbIdle
    /\ billing = [u \in Users |-> IF u = "u1" THEN "active" ELSE "absent"]
    /\ sel = SelIdle
    /\ suc = SucIdle
    /\ api = ApiIdle

\* the hooks and guards of the mounted page, and one return from payment,
\* handled by the success page in another tab, as the change of their inputs
NextLive ==
    \/ AuthLoad
    \/ OnbFetch
    \/ SubFetch
    \/ TrialCheck
    \/ NavigationEffect
    \/ OnboardingPageEffects
    \/ RealtimeUpdate
    \/ AuthRefresh
    \/ suc.pc = "idle" /\ SucStart
    \/ SucUpsert
    \/ SucSync

\* every effect runs after the render that enables it: a hook's fetch
\* resolves, a delivered change is handled, a page's navigation effect runs
\* whenever it would change anything, and a request that was received is
\* served to its end
SpecLive ==
    /\ InitLive
    /\ [][NextLive]_vars
    /\ WF_vars(AuthLoad)
    /\ WF_vars(OnbFetch)
    /\ WF_vars(SubFetch)
    /\ WF_vars(TrialCheck)
    /\ WF_vars(NavigationEffect)
    /\ WF_vars(OnboardingPageEffects)
    /\ WF_vars(RealtimeUpdate)
    /\ WF_vars(AuthRefresh)
    /\ WF_vars(SucUpsert)
    /\ WF_vars(SucSync)

\* C29: from any protected route and for any stored subscription, trial and
\* preferences, the redirects of the page guards end: eventually the tab
\* stays on one route for ever.
C29_RedirectConvergence ==
    \/ <>[](route = LOGIN)
    \/ <>[](route = DASHBOARD)
    \/ <>[](route = ONBOARDING)

\* C27: the guard of the mounted page follows its inputs: eventually the tab
\* is, and stays, on the route that getDestination gives for the session's
\* user and that user's stored subscription.
C27_GuardFollowsInputs ==
    <>[](route = getDestination(session, IsSubscriberOf(session)))

----------------------------------------------------------------------------
(* One user's journey in one tab: signup, callback, plan, payment, return *)

SUCCESS == "/onboarding/success"

\* the browser follows the callback's redirect: the request is over and the
\* target page mounts
CallbackLanding ==
    /\ route = LOGIN
    /\ cb.pc = "done"
    /\ cb.redirect # LOGIN
    /\ route' = cb.redirect
    /\ cb' = CbIdle
    /\ auth' = AuthInit
    /\ onb' = OnbInit
    /\ hook' = HookInit
    /\ sub' = SubInit
    /\ trial' = TrialInit
    /\ gate' = GateInit
    /\ UNCHANGED <<storeVars, session, onbPage, flowVars>>

\* OnboardingPage renders OnboardingPricing once AuthContext holds the user
PricingMount ==
    /\ route = ONBOARDING
    /\ auth.user # NoUser
    /\ sel = SelIdle
    /\ sel' = SelMounted(auth.user)
    /\ UNCHANGED <<storeVars, navVars, cb, billing, suc, api>>

\* the user pays on the payment link's page, which replaced the application
\* in the tab; the provider holds an active subscription and sends the
\* browser to the success URL
Checkout ==
    /\ route \in Protected
    /\ suc.pc = "idle"
    /\ sel.href.link = PRO_PAYMENT_LINK
    /\ route' = SUCCESS
    /\ billing' = [billing EXCEPT ![sel.href.client_reference_id] = "active"]
    /\ auth' = AuthInit
    /\ onb' = OnbInit
    /\ hook' = HookInit
    /\ sub' = SubInit
    /\ trial' = TrialInit
    /\ gate' = GateInit
    /\ UNCHANGED <<storeVars, session, onbPage, cb, sel, suc, api>>

\* the browser follows the success page's redirect: of the request its
\* user and the outcomes of its two calls remain, and the target page mounts
SuccessLanding ==
    /\ route = SUCCESS
    /\ suc.pc = "done"
    /\ route' = suc.redirect
    /\ suc' = [SucIdle EXCEPT !.pc = "landed", !.user = suc.user,
                               !.upsert = suc.upsert, !.sync = suc.sync]
    /\ UNCHANGED <<storeVars, session, onbPage, auth, onb, hook, sub, trial, gate,
                   cb, billing, sel, api>>

\* the tab shows an application page: it has not left for the payment
\* link, or it has come back
OnPage == sel.href = NoUrl \/ suc.pc = "landed"

\* the browser is on the login page; the user has no account yet, or has one
\* that was created without a preferences row
InitJourney ==
    /\ now = 1
    /\ session = NoUser
    /\ accounts \in {{}, {"u1"}}
    /\ prefs = {}
    /\ subs = [u \in Users |-> "absent"]
    /\ trials = [u \in Users |-> NoTrial]
    /\ route = LOGIN
    /\ onbPage \in {"own", "nav"}
    /\ auth = AuthInit
    /\ onb = OnbInit
    /\ hook = HookInit
    /\ sub = SubInit
    /\ trial = TrialInit
    /\ gate = GateInit
    /\ cb = CbIdle
    /\ billing = subs
    /\ sel = SelIdle
    /\ suc = SucIdle
    /\ api = ApiIdle

NextJourney ==
    \/ route = LOGIN /\ Signup("u1")
    \/ route = LOGIN /\ cb.pc = "idle" /\ CbStart
    \/ CbExchange
    \/ CbRead
    \/ CbInsert
    \/ CallbackLanding
    \/ OnPage /\ AuthLoad
    \/ OnPage /\ OnbFetch
    \/ OnPage /\ SubFetch
    \/ OnPage /\ TrialCheck
    \/ OnPage /\ NavigationEffect
    \/ OnPage /\ OnboardingPageEffects
    \/ PricingMount
    \/ route = ONBOARDING /\ sel.clicks = 0 /\ PlanSelect(TierOf("pro"))
    \/ \E c \in sel.calls, outcome \in WriteOutcomes : PlanSelectResume(c, outcome)
    \/ Checkout
    \/ route = SUCCESS /\ suc.pc = "idle" /\ SucStart
    \/ SucUpsert
    \/ SucSync
    \/ SuccessLanding
    \/ Tick

SpecJourney == InitJourney /\ [][NextJourney]_vars

\* the journey's end: the plan was "pro", the success page's upsert succeeded
\* for the user, and the browser followed that page's redirect
JourneyEnd ==
    /\ suc.pc = "landed"
    /\ suc.upsert = "ok"
    /\ suc.user = session
    /\ sel.href.link = PRO_PAYMENT_LINK

\* C21: after signup, the callback's redirect to /onboarding, the selection
\* of "pro" and a return from payment whose upsert succeeded, the tab is on
\* /dashboard and every settled evaluation of the gate has destination
\* /dashboard, whatever the outcome of the subscription sync was.
C21_JourneyToDashboard ==
    JourneyEnd => (route = DASHBOARD /\ (Decided => gate.dest = DASHBOARD))

====
